---- MODULE Spec2Model ----
(***************************************************************************)
(* Per-call streaming engine of VoiceForge-API: the upstream client        *)
(* (TrueVoiceClient), the pipeline orchestrator (StreamingPipeline), the   *)
(* jitter buffer, the sequencer and the call session kept by               *)
(* TelephonyService.  Every handler of the source is one atomic action     *)
(* (JavaScript runs a handler to completion); an `await` splits a method   *)
(* into the step before it and the continuation after it.                  *)
(***************************************************************************)
EXTENDS Integers, Sequences, FiniteSets, TLC

\* ---------------------------------------------------------------- bounds
MaxConnects == 6      \* sockets the client may create in one behaviour
MaxLive == 2          \* sockets that may be unfinished at the same time
MaxTimers == 2        \* reconnect timers that may be outstanding at the same time
MaxInputs == 2        \* upstream frames, ingress frames and status webhooks
                      \* delivered in one behaviour, taken together
MaxUnderruns == 1     \* cap of the underrun counter
MaxTime == 1200       \* last clock value at which a frame may arrive
MaxSeq == 3           \* largest sequence number offered to a bare jitter buffer
MaxOps == 5           \* enqueue/dequeue calls on a bare jitter buffer
MaxSessions == 2      \* concurrent call sessions
MaxTokens == 2        \* stream tokens issued to one session
MaxTokSteps == 4      \* clock advances while tokens are presented
MaxBytes == 5         \* length of the audio buffers given to the converter
SentenceWords == 20   \* words of the sentence an llm_token frame can carry
LongWords == 30       \* words of the long unfinished text a frame can carry
MaxCalls == 3         \* start() and stop() calls of a caller driving a pipeline

\* ------------------------------------------------------ program constants
maxReconnectAttempts == 5
initialReconnectDelay == 1000
maxDelayMs == 30000
NORMAL_CLOSURE == 1000
ABNORMAL_CLOSURE == 1006
minBufferMs == 20
maxBufferMs == 60
targetBufferMs == 40
adaptationIntervalMs == 100
estimatedChunkDurationMs == 20
arrivalWindow == 50
jitterMultiplier == 2
minSpeed == 950
maxSpeed == 1050
baseSpeed == 1000
speedStep == 20
bufferLowThreshold == 20
bufferHighThreshold == 80
streamTokenTtlMs == 300000
enableBreathing == TRUE
seenCapacity == 1000
ClockBase == 1000     \* Date.now() at the start of a behaviour
Deltas == {0, 20, 100}
MinSpeeds == {950, 990, 1000}
MaxSpeeds == {1000, 1010, 1050}
Levels == {-10, 0, 10, 20, 50, 80, 90, 100, 150}

VARIABLES
  \* TrueVoiceClient
  ws, isConnecting, isConnected, reconnectAttempts, reconnectDelay,
  timers, sockets, created,
  \* what the upstream received, and the outcome of the last sendAudio
  wire, sendResult, nSends, rejected,
  \* StreamingPipeline
  wired, isActive, playbackInterval, intervals, controller, starts,
  jitterBuffer, sequencer, statistics, emitted, egress, now, nFrames,
  \* CallSession / TelephonyService
  inMap, session, endCalls, streamPc, webhookCalls, nWebhooks,
  carrierStopped,
  \* observation of the run
  stopRequested, failsSinceOpen, sinceStop, terminalSignalled,
  stoppedCount, startedCount, sinceStart, sessionEnded, jbOut, nOps,
  \* the frame carried by the chunk with a given sequence; the carrier's socket
  frameOf, carrierClosed,
  \* components exercised on their own
  stamped, jitterSeen, seqObs, codec,
  \* the text the pipeline accumulates from llm_token frames, and what was
  \* seen of llm_done events and of breathing bursts
  lastLLMText, textObs,
  \* TelephonyService with several sessions, each with its own pipeline
  activeSessions, pipelines, carrierConns, isoEnv,
  \* the stream token of one session and the carrier connections presenting it
  streamMeta, tokEnv, issuedAt, acceptedBy, lastConn

clientVars == <<ws, isConnecting, isConnected, reconnectAttempts,
                reconnectDelay, timers, sockets, created>>
sendVars == <<wire, sendResult, nSends, rejected>>
pipeVars == <<isActive, playbackInterval, intervals, controller,
              jitterBuffer, sequencer>>
pipeAux == <<wired, starts, statistics, egress, now, nFrames>>
sessVars == <<inMap, session, endCalls, streamPc, webhookCalls,
              nWebhooks, carrierStopped>>
histVars == <<stopRequested, failsSinceOpen, sinceStop, stoppedCount,
              startedCount, sinceStart, terminalSignalled, sessionEnded,
              jbOut, nOps>>
specAux == <<frameOf, carrierClosed>>
isoVars == <<activeSessions, pipelines, carrierConns, isoEnv>>
tokVars == <<streamMeta, tokEnv, issuedAt, acceptedBy, lastConn>>
textVars == <<lastLLMText, textObs>>
nonIsoSide == <<stamped, seqObs, codec, jitterSeen, tokVars, textVars>>
nonTokSide == <<stamped, seqObs, codec, jitterSeen, isoVars, textVars>>
nonJBSide == <<stamped, seqObs, codec, tokVars, isoVars, textVars>>
nonSeqSide == <<codec, jitterSeen, tokVars, isoVars, textVars>>
nonCodecSide == <<stamped, seqObs, jitterSeen, tokVars, isoVars, textVars>>
nonTextSide == <<stamped, seqObs, codec, jitterSeen, tokVars, isoVars>>
sideVars == <<nonIsoSide, isoVars>>
mainVars == <<clientVars, sendVars, pipeVars, pipeAux, sessVars, histVars,
              emitted, specAux>>
vars == <<mainVars, sideVars>>

SocketIds == 1..MaxConnects
SessionIds == 1..MaxSessions
RunFirsts == {0, 1}
RunLengths == {0, seenCapacity - 1, seenCapacity, seenCapacity + 1}
ConnIds == 1..(MaxSessions + 1)
TokenIds == 1..MaxTokens
TokDeltas == {1, streamTokenTtlMs - 1}
InputsLeft == nFrames + nSends + nWebhooks < MaxInputs
Min(a, b) == IF a < b THEN a ELSE b
Max(a, b) == IF a > b THEN a ELSE b
RemoveAt(s, i) == [j \in 1..(Len(s) - 1) |-> IF j < i THEN s[j] ELSE s[j + 1]]

\* ------------------------------------------------------------ jitter buffer
JitterBufferInit ==
  [buffer |-> <<>>, arrivalTimes |-> <<>>, expectedSequence |-> 0,
   lastAdaptationTime |-> 0, targetBufferMs |-> targetBufferMs,
   bufferUnderruns |-> 0, bufferOverruns |-> 0, totalPackets |-> 0,
   outOfOrderPackets |-> 0, packetLoss |-> 0]

GetCurrentBufferMs(buf) ==
  IF Len(buf) = 0 THEN 0 ELSE Len(buf) * estimatedChunkDurationMs

\* insertChunkInOrder that puts the late chunk at the end of the buffer
InsertChunkInOrder_Append(buf, seq) == Append(buf, seq)

InsertChunkInOrder(buf, seq) ==
  LET later == {i \in 1..Len(buf) : buf[i] > seq}
      insertIndex == IF later = {} THEN Len(buf) + 1
                     ELSE CHOOSE i \in later : \A j \in later : i <= j
  IN [i \in 1..(Len(buf) + 1) |->
        IF i < insertIndex THEN buf[i]
        ELSE IF i = insertIndex THEN seq ELSE buf[i - 1]]

RECURSIVE SumSeq(_)
SumSeq(s) == IF s = <<>> THEN 0 ELSE Head(s) + SumSeq(Tail(s))

\* n^2 times the variance of the window: n * sum(x^2) - (sum x)^2
VarianceTimesN2(arr) ==
  LET n == Len(arr)
      sq == [i \in 1..n |-> arr[i] * arr[i]]
  IN n * SumSeq(sq) - SumSeq(arr) * SumSeq(arr)

\* the least whole number of ms that is >= multiplier * standard deviation,
\* capped at the width of the [min, max] range: a depth in whole ms compares
\* with this value exactly as it compares with the real-valued target
JitterTermMs(arr) ==
  IF Len(arr) < 2 THEN 0
  ELSE LET n == Len(arr)
           v == VarianceTimesN2(arr)
           span == maxBufferMs - minBufferMs
           ok == {k \in 0..span :
                    k * k * n * n >= jitterMultiplier * jitterMultiplier * v}
       IN IF ok = {} THEN span
          ELSE CHOOSE k \in ok : \A j \in ok : k <= j

AdaptBufferSize_Inverted(jb, t) ==
  IF t - jb.lastAdaptationTime < adaptationIntervalMs THEN jb
  ELSE [jb EXCEPT !.lastAdaptationTime = t,
                  !.targetBufferMs =
                     Min(maxBufferMs,
                         Max(minBufferMs, maxBufferMs - JitterTermMs(jb.arrivalTimes)))]

AdaptBufferSize(jb, t) ==
  IF t - jb.lastAdaptationTime < adaptationIntervalMs THEN jb
  ELSE [jb EXCEPT !.lastAdaptationTime = t,
                  !.targetBufferMs =
                     Min(maxBufferMs,
                         Max(minBufferMs, minBufferMs + JitterTermMs(jb.arrivalTimes)))]

CeilDiv(a, b) == (a + b - 1) \div b

\* dropOldestChunks taking the chunks from the end of the buffer
DropOldestChunks_Newest(buf, targetReductionMs) ==
  LET chunksToDrop == Min(CeilDiv(targetReductionMs, 20), Len(buf))
  IN SubSeq(buf, 1, Len(buf) - chunksToDrop)

DropOldestChunks(buf, targetReductionMs) ==
  LET chunksToDrop == Min(CeilDiv(targetReductionMs, 20), Len(buf))
  IN SubSeq(buf, chunksToDrop + 1, Len(buf))

PushArrival(arr, t) ==
  IF Len(arr) > 0
  THEN LET pushed == Append(arr, t - arr[Len(arr)])
       IN IF Len(pushed) > arrivalWindow THEN Tail(pushed) ELSE pushed
  ELSE <<0>>

\* the jitter measured so far at adaptation ticks: the largest one, kept as
\* n^2 * variance (v) and the window length (n), and the number of ticks
JitterExceeds(v1, n1, v2, n2) == v1 * n2 * n2 > v2 * n1 * n1

WillAdapt(jb, t) == t - jb.lastAdaptationTime >= adaptationIntervalMs

JitterSeenAfter(seen, jb, t) ==
  LET arr == PushArrival(jb.arrivalTimes, t)
      v == IF Len(arr) < 2 THEN 0 ELSE VarianceTimesN2(arr)
      n == Len(arr)
  IN IF ~WillAdapt(jb, t) THEN seen
     ELSE IF seen.ticks = 0 \/ JitterExceeds(v, n, seen.v, seen.n)
     THEN [ticks |-> seen.ticks + 1, v |-> v, n |-> n]
     ELSE [seen EXCEPT !.ticks = @ + 1]

AddChunk(jb, seq, t) ==
  LET arr == PushArrival(jb.arrivalTimes, t)
      placed ==
        IF seq < jb.expectedSequence
        THEN [jb EXCEPT !.outOfOrderPackets = @ + 1,
                        !.buffer = InsertChunkInOrder(@, seq)]
        ELSE IF seq = jb.expectedSequence
        THEN [jb EXCEPT !.buffer = Append(@, seq),
                        !.expectedSequence = seq + 1]
        ELSE [jb EXCEPT !.packetLoss = @ + (seq - jb.expectedSequence),
                        !.buffer = Append(@, seq),
                        !.expectedSequence = seq + 1]
      counted == [placed EXCEPT !.totalPackets = @ + 1, !.arrivalTimes = arr]
      currentBufferMs == GetCurrentBufferMs(counted.buffer)
      bounded ==
        IF currentBufferMs > maxBufferMs
        THEN [counted EXCEPT !.bufferOverruns = @ + 1,
                !.buffer = DropOldestChunks(@, currentBufferMs - maxBufferMs)]
        ELSE counted
  IN AdaptBufferSize(bounded, t)

\* getNextChunk: the new buffer state and the sequence returned (-1 for null)
GetNextChunk_Newest(jb) ==
  LET currentBufferMs == GetCurrentBufferMs(jb.buffer)
  IN IF currentBufferMs < minBufferMs
     THEN [jb |-> [jb EXCEPT !.bufferUnderruns = @ + 1], chunk |-> -1]
     ELSE IF currentBufferMs < jb.targetBufferMs
     THEN [jb |-> jb, chunk |-> -1]
     ELSE [jb |-> [jb EXCEPT !.buffer = SubSeq(@, 1, Len(@) - 1)],
           chunk |-> jb.buffer[Len(jb.buffer)]]

GetNextChunk(jb) ==
  LET currentBufferMs == GetCurrentBufferMs(jb.buffer)
  IN IF currentBufferMs < minBufferMs
     THEN [jb |-> [jb EXCEPT !.bufferUnderruns = @ + 1], chunk |-> -1]
     ELSE IF currentBufferMs < jb.targetBufferMs
     THEN [jb |-> jb, chunk |-> -1]
     ELSE [jb |-> [jb EXCEPT !.buffer = Tail(@)], chunk |-> Head(jb.buffer)]

JitterBufferClear(jb) ==
  [jb EXCEPT !.buffer = <<>>, !.arrivalTimes = <<>>, !.expectedSequence = 0]

\* ---------------------------------------------------------- audio converter
\* a Buffer is a sequence of bytes; the bytes the buffers are built from
ByteSamples == {0, 127, 128, 255}

RECURSIVE BuffersOfLen(_)
BuffersOfLen(n) ==
  IF n = 0 THEN {<<>>}
  ELSE {Append(b, x) : b \in BuffersOfLen(n - 1), x \in ByteSamples}

PcmInputs == UNION {BuffersOfLen(n) : n \in 0..MaxBytes}

RECURSIVE Pow2(_)
Pow2(k) == IF k = 0 THEN 1 ELSE 2 * Pow2(k - 1)

\* buf.readInt16LE(offset), offset counted from 0
ReadInt16LE(buf, offset) ==
  LET u == buf[offset + 1] + 256 * buf[offset + 2]
  IN IF u >= 32768 THEN u - 65536 ELSE u

\* the two bytes buf.writeInt16LE(value) stores
Int16LEBytes(value) ==
  LET u == IF value < 0 THEN value + 65536 ELSE value
  IN <<u % 256, u \div 256>>

RECURSIVE FlattenPairs(_)
FlattenPairs(s) == IF s = <<>> THEN <<>> ELSE Head(s) \o FlattenPairs(Tail(s))

\* every second sample of the input; the sample count is a floor
Resample16kTo8k(pcm16k) ==
  LET outputSamples == Len(pcm16k) \div 4
  IN FlattenPairs([i \in 1..outputSamples |->
                     Int16LEBytes(ReadInt16LE(pcm16k, (i - 1) * 4))])

\* Math.floor(Math.log2(n)) for n >= 1
FloorLog2(n) == CHOOSE k \in 0..16 : Pow2(k) <= n /\ n < Pow2(k + 1)

\* Math.floor(Math.log2((abs >> 7) + 1)) of the clamped sample
UlawExponent(pcm16) ==
  LET linear == Max(-32768, Min(32767, pcm16))
      abs == IF linear < 0 THEN -linear ELSE linear
  IN FloorLog2((abs \div 128) + 1)

\* sign | (exponent << 4) | mantissa, stored in one byte
UlawByte(pcm16) ==
  LET linear == Max(-32768, Min(32767, pcm16))
      sign == IF linear < 0 THEN 128 ELSE 0
      abs == IF linear < 0 THEN -linear ELSE linear
      exponent == UlawExponent(pcm16)
      mantissa == (abs \div Pow2(exponent + 3)) % 16
      shifted == exponent * 16
      high == IF shifted >= 128 THEN 128 + (shifted % 128) ELSE sign + shifted
  IN (high + mantissa) % 256

\* convertPcm16ToUlaw: the outcome and the bytes returned
ConvertPcm16ToUlaw(pcm16Data) ==
  LET pcm8k == Resample16kTo8k(pcm16Data)
  IN [outcome |-> "ok",
      output |-> [i \in 1..(Len(pcm8k) \div 2) |->
                    UlawByte(ReadInt16LE(pcm8k, (i - 1) * 2))]]

CodecIdle(input) == [input |-> input, outcome |-> "none", output |-> <<>>]

\* ------------------------------------------------- LLM text and breathing
\* a text is a sequence of characters: "w" (a letter), " " and "."
NoText == <<>>

\* n words separated by single spaces
Words(n) == [i \in 1..(2 * n - 1) |-> IF i % 2 = 1 THEN "w" ELSE " "]

\* a sentence of n words, ending with a period
Sentence(n) == Append(Words(n), ".")

\* the texts of the llm_token frames
TokenTexts == {Words(1), Sentence(SentenceWords), Words(LongWords)}

\* text.split(' ').length
SplitLength(text) == Cardinality({i \in DOMAIN text : text[i] = " "}) + 1

EndsWithPeriod(text) == Len(text) > 0 /\ text[Len(text)] = "."

\* BreathingGenerator.shouldInsertBreathing
ShouldInsertBreathing(enabled, sentenceLength, isSentenceEnd, isLongPause) ==
  IF ~enabled THEN [shouldInsert |-> FALSE, type |-> "normal"]
  ELSE IF isSentenceEnd /\ sentenceLength > 15
  THEN [shouldInsert |-> TRUE, type |-> "normal"]
  ELSE IF ~isSentenceEnd /\ sentenceLength > 25
  THEN [shouldInsert |-> TRUE, type |-> "deep"]
  ELSE IF isLongPause THEN [shouldInsert |-> TRUE, type |-> "normal"]
  ELSE [shouldInsert |-> FALSE, type |-> "normal"]

\* the breathing burst the playback loop appends to a chunk: its type, or
\* "none"
BreathingFor(text) ==
  IF ~enableBreathing THEN "none"
  ELSE LET shouldBreathe ==
             ShouldInsertBreathing(enableBreathing, SplitLength(text), FALSE, FALSE)
       IN IF shouldBreathe.shouldInsert THEN shouldBreathe.type ELSE "none"

\* the 'llm_token' and 'llm_done' listeners of the pipeline: lastLLMText
LastLLMTextAfter(last, kind, text) ==
  IF kind = "llm_token" THEN last \o text
  ELSE IF kind = "llm_done" THEN NoText
  ELSE last

\* what the text listeners leave to be seen: lastTranscript, the text the
\* llm_done event carried (done), the llm_token texts received since the
\* later of the previous llm_done and the last start() (expected), and the
\* breathing bursts appended since a text last arrived (breaths)
TextObsAfter(obs, last, kind, text) ==
  IF kind = "transcript"
  THEN [obs EXCEPT !.lastTranscript = text, !.breaths = 0]
  ELSE IF kind = "llm_token"
  THEN [obs EXCEPT !.expected = @ \o text, !.breaths = 0]
  ELSE IF kind = "llm_done"
  THEN [obs EXCEPT !.done = last, !.expected = NoText, !.breaths = 0]
  ELSE obs

\* ---------------------------------------------------------------- sequencer
SequencerInit ==
  [sequenceCounter |-> 0, expectedSequence |-> 0, receivedSequences |-> {}]

NoResult ==
  [isOutOfOrder |-> FALSE, isDuplicate |-> FALSE, hasGap |-> FALSE,
   missingSequences |-> <<>>]

\* what is known of the processChunk calls since the last reset: the
\* sequences passed, the sequences reported missing before the last call,
\* and the last call's input, expectation, clean-up and returned value
SeqObsAfterRun(first, n) ==
  [processed |-> first..(first + n - 1),
   reported |-> IF n > 0 THEN 0..(first - 1) ELSE {}, seq |-> -1,
   expectedBefore |-> 0, wasProcessed |-> FALSE, pruned |-> FALSE,
   result |-> NoResult]

\* processChunk with the expected sequence advanced only by the next chunk
ProcessChunk_StaleExpected(sq, seq) ==
  IF seq \in sq.receivedSequences THEN sq
  ELSE [sq EXCEPT !.expectedSequence = IF seq = @ THEN seq + 1 ELSE @,
                  !.receivedSequences = @ \cup {seq}]

\* processChunk whose clean-up also drops the sequence expected - capacity
ProcessChunk_PruneTight(sq, seq) ==
  IF seq \in sq.receivedSequences THEN sq
  ELSE LET expected == IF seq >= sq.expectedSequence THEN seq + 1
                       ELSE sq.expectedSequence
           received == sq.receivedSequences \cup {seq}
       IN [sq EXCEPT !.expectedSequence = expected,
             !.receivedSequences =
                IF Cardinality(received) > seenCapacity
                THEN {x \in received : x > expected - seenCapacity}
                ELSE received]

\* processChunk without the clean-up of old sequences
ProcessChunk_NoPrune(sq, seq) ==
  IF seq \in sq.receivedSequences THEN sq
  ELSE [sq EXCEPT !.expectedSequence = IF seq >= @ THEN seq + 1 ELSE @,
                  !.receivedSequences = @ \cup {seq}]

\* the state processChunk leaves for a chunk carrying sequence seq
ProcessChunk(sq, seq) ==
  IF seq \in sq.receivedSequences THEN sq
  ELSE LET expected == IF seq >= sq.expectedSequence THEN seq + 1
                       ELSE sq.expectedSequence
           received == sq.receivedSequences \cup {seq}
       IN [sq EXCEPT !.expectedSequence = expected,
             !.receivedSequences =
                IF Cardinality(received) > seenCapacity
                THEN {x \in received : x >= expected - seenCapacity}
                ELSE received]

\* the value processChunk returns for a chunk carrying sequence seq
ProcessResult_RawFlags(sq, seq) ==
  [isOutOfOrder |-> seq < sq.expectedSequence,
   isDuplicate |-> seq \in sq.receivedSequences,
   hasGap |-> seq > sq.expectedSequence,
   missingSequences |->
     IF seq > sq.expectedSequence /\ seq \notin sq.receivedSequences
     THEN [i \in 1..(seq - sq.expectedSequence) |->
             sq.expectedSequence + i - 1]
     ELSE <<>>]

ProcessResult(sq, seq) ==
  LET isOutOfOrder == seq < sq.expectedSequence
      isDuplicate == seq \in sq.receivedSequences
      hasGap == seq > sq.expectedSequence
  IN IF isDuplicate
     THEN [isOutOfOrder |-> FALSE, isDuplicate |-> TRUE, hasGap |-> FALSE,
           missingSequences |-> <<>>]
     ELSE [isOutOfOrder |-> isOutOfOrder, isDuplicate |-> FALSE,
           hasGap |-> hasGap,
           missingSequences |->
             IF hasGap
             THEN [i \in 1..(seq - sq.expectedSequence) |->
                     sq.expectedSequence + i - 1]
             ELSE <<>>]

\* whether this processChunk call runs the clean-up of old sequences
PrunesOnProcess(sq, seq) ==
  /\ seq \notin sq.receivedSequences
  /\ Cardinality(sq.receivedSequences \cup {seq}) > seenCapacity

\* the sequencer after processChunk of the n chunks first, first+1, ...
\* (the run is split in halves, and sq is evaluated before the split, so
\* that TLC's evaluation stack stays shallow; expectedSequence is never < 0)
RECURSIVE ProcessRun(_, _, _)
ProcessRun(sq, first, n) ==
  IF n = 0 \/ sq.expectedSequence < 0 THEN sq
  ELSE IF n = 1 THEN ProcessChunk(sq, first)
  ELSE LET half == n \div 2
       IN ProcessRun(ProcessRun(sq, first, half), first + half, n - half)

CreateChunk_FromExpected(sq) ==
  [sq EXCEPT !.sequenceCounter = Max(@, sq.expectedSequence) + 1]

CreateChunk(sq) == [sq EXCEPT !.sequenceCounter = @ + 1]

\* ------------------------------------------------------ playback controller
\* speeds are in thousandths, buffer levels in hundredths
ControllerNew(minS, maxS) ==
  [isPlaying |-> FALSE, isPaused |-> FALSE, isBuffering |-> FALSE,
   currentSpeed |-> baseSpeed, speedAdjustment |-> 0, bufferLevel |-> 0,
   minSpeed |-> minS, maxSpeed |-> maxS]

ControllerInit == ControllerNew(minSpeed, maxSpeed)

ControllerStart(c) ==
  [c EXCEPT !.isPlaying = TRUE, !.isPaused = FALSE, !.isBuffering = FALSE]

ControllerPause(c) == [c EXCEPT !.isPaused = TRUE, !.isPlaying = FALSE]

ControllerResume(c) == [c EXCEPT !.isPaused = FALSE, !.isPlaying = TRUE]

ControllerStop(c) ==
  [c EXCEPT !.isPlaying = FALSE, !.isPaused = FALSE, !.isBuffering = FALSE,
            !.currentSpeed = baseSpeed, !.speedAdjustment = 0]

ControllerIsPlaying(c) == c.isPlaying /\ ~c.isPaused

ClampSpeed_None(c, newSpeed) == newSpeed

ClampSpeed(c, newSpeed) == Max(c.minSpeed, Min(c.maxSpeed, newSpeed))

\* updateBufferLevel(num / den), den > 0; the stored level is kept in whole
\* hundredths, the comparisons with the thresholds are exact
UpdateBufferLevel(c, num, den) ==
  LET low == num * 100 < bufferLowThreshold * den
      high == num * 100 > bufferHighThreshold * den
      adj == IF low THEN -speedStep ELSE IF high THEN speedStep ELSE 0
  IN [c EXCEPT !.bufferLevel = Max(0, Min(100, (num * 100) \div den)),
               !.speedAdjustment = adj,
               !.isBuffering = low,
               !.currentSpeed = ClampSpeed(c, baseSpeed + adj)]

\* ------------------------------------------------- ws sockets (environment)
\* NONE: not created; ABORTING: close() was called during the handshake, the
\* library will emit 'error' and then 'close'; ERRORED: 'error' was emitted,
\* 'close' with 1006 follows; CLOSING: close() was called on an open socket.
SocketStates == {"NONE", "CONNECTING", "OPEN", "CLOSING", "ABORTING",
                 "ERRORED", "CLOSED"}

\* this.ws.close(1000, 'Client disconnect') on socket w of socket table sk
LibClose(sk, w) ==
  IF w = 0 THEN sk
  ELSE IF sk[w] = "CONNECTING" THEN [sk EXCEPT ![w] = "ABORTING"]
  ELSE IF sk[w] = "OPEN" THEN [sk EXCEPT ![w] = "CLOSING"]
  ELSE sk

CloseCodes(st) ==
  IF st = "ERRORED" THEN {ABNORMAL_CLOSURE}
  ELSE {NORMAL_CLOSURE, ABNORMAL_CLOSURE}

\* ------------------------------------------------------- TrueVoiceClient
ReconnectDelayMs(base, attempts) ==
  Min(base * 2 ^ (attempts - 1), maxDelayMs)

ShouldReconnect_OffByOne(code, attempts) ==
  code # NORMAL_CLOSURE /\ attempts <= maxReconnectAttempts

ShouldReconnect(code, attempts) ==
  code # NORMAL_CLOSURE /\ attempts < maxReconnectAttempts

AttemptsAfterOpen_NoReset(attempts) == attempts

AttemptsAfterOpen(attempts) == 0

CanSend_SocketOnly(conn, w, sk) == w # 0 /\ sk[w] = "OPEN"

CanSend(conn, w, sk) == conn /\ w # 0 /\ sk[w] = "OPEN"

Connected(conn, w, sk) == conn /\ w # 0 /\ sk[w] = "OPEN"

\* the sockets that can still deliver an event
Live(sk) == {s \in SocketIds : sk[s] \notin {"NONE", "CLOSED"}}

\* connect() past its guard: a new socket is created and becomes this.ws
NewSocket(sk) ==
  /\ created < MaxConnects
  /\ Cardinality(Live(sk)) < MaxLive
  /\ created' = created + 1
  /\ sockets' = [sk EXCEPT ![created + 1] = "CONNECTING"]
  /\ ws' = created + 1
  /\ isConnecting' = TRUE

\* the outstanding timers, kept in one canonical order (a multiset)
TimerBefore(a, b) == a.delay < b.delay \/ (a.delay = b.delay /\ a.nth <= b.nth)

AddTimer(ts, t) ==
  LET k == Cardinality({i \in DOMAIN ts : TimerBefore(ts[i], t)})
  IN [i \in 1..(Len(ts) + 1) |->
        IF i <= k THEN ts[i] ELSE IF i = k + 1 THEN t ELSE ts[i - 1]]

Settle(st, s, outcome) ==
  [i \in DOMAIN st |->
     IF st[i].sock = s /\ st[i].st = "pending"
     THEN [st[i] EXCEPT !.st = outcome] ELSE st[i]]

Pending(s) == \E i \in DOMAIN starts : starts[i].sock = s /\ starts[i].st = "pending"

Unsettled(st) == SelectSeq(st, LAMBDA e : e.st = "pending")

\* ------------------------------------------------------ StreamingPipeline
\* stop() past its guard, on socket table sk
StopEffect(sk) ==
  /\ isActive' = FALSE
  /\ controller' = ControllerStop(controller)
  /\ playbackInterval' = FALSE
  /\ intervals' = IF playbackInterval THEN intervals - 1 ELSE intervals
  /\ sockets' = LibClose(sk, ws)
  /\ ws' = 0
  /\ isConnected' = FALSE
  /\ isConnecting' = FALSE
  /\ jitterBuffer' = JitterBufferClear(jitterBuffer)
  /\ sequencer' = SequencerInit
  /\ stopRequested' = TRUE
  /\ sinceStop' = TRUE
  /\ stoppedCount' = stoppedCount + 1

\* the same variables when stop() is not reached or returns at its guard
NoStop(sk, conn, conng) ==
  /\ UNCHANGED pipeVars
  /\ sockets' = sk
  /\ ws' = ws
  /\ isConnected' = conn
  /\ isConnecting' = conng
  /\ UNCHANGED <<stopRequested, sinceStop, stoppedCount>>

\* what the TelephonyService listeners do to the session on a pipeline event
ServiceOnPipelineError_Fails(sess) == [sess EXCEPT !.status = "failed"]

ServiceOnPipelineError(sess) == sess
ServiceOnPipelineText(sess) == sess

\* ------------------------------------------------------- TelephonyService
StatusMap(cs) ==
  IF cs \in {"busy", "no-answer", "canceled", "failed"} THEN "failed" ELSE cs

TerminalCarrierStatus(cs) ==
  cs \in {"completed", "busy", "no-answer", "canceled", "failed"}

UpdateCallStatus(sess, status) ==
  [sess EXCEPT
     !.status = status,
     !.startedAt = IF status = "in-progress" /\ ~sess.startedAt THEN TRUE ELSE @,
     !.endedAt = IF ~(status = "in-progress" /\ ~sess.startedAt)
                    /\ status \in {"completed", "failed"} /\ ~sess.endedAt
                 THEN TRUE ELSE @]

CarrierStatuses == {"ringing", "in-progress", "completed", "busy"}

\* one entry of activeSessions; audioOutputCallback is the carrier connection
\* the callback writes to (0: none set)
NoSession ==
  [present |-> FALSE, audioOutputCallback |-> 0, streamingPipeline |-> FALSE]

\* the pipeline created for a session by initializeStreamingPipeline
NoPipeline ==
  [state |-> "none", jitterBuffer |-> JitterBufferInit,
   sequencer |-> SequencerInit, frameOf |-> [k \in 0..MaxInputs |-> 0]]

\* the connection the 'audio' listener of the pipeline of session t writes to
AudioOutputTarget_Shared(sessions, t) ==
  LET have == {u \in SessionIds : sessions[u].audioOutputCallback # 0}
  IN IF have = {} THEN 0
     ELSE sessions[CHOOSE u \in have : \A w \in have : u <= w].audioOutputCallback

AudioOutputTarget(sessions, t) == sessions[t].audioOutputCallback

\* session.metadata.streamToken / streamTokenExpiry (0: absent)
NoToken == [streamToken |-> 0, streamTokenExpiry |-> 0]

\* the token validation of the media connection handler: the close reason,
\* or "accepted"
ValidateToken(present, meta, token, t) ==
  IF ~present THEN "Invalid session"
  ELSE IF meta.streamToken = 0 \/ token = 0 \/ token # meta.streamToken
  THEN "Unauthorized"
  ELSE IF t > meta.streamTokenExpiry THEN "Token expired"
  ELSE "accepted"

\* session.metadata after a successful authentication
MetaAfterAccept_Kept(meta) == meta

MetaAfterAccept(meta) == NoToken

\* ------------------------------------------------------------------- Init
InitCore ==
  /\ ws = 0 /\ isConnecting = FALSE /\ isConnected = FALSE
  /\ reconnectAttempts = 0 /\ reconnectDelay = initialReconnectDelay
  /\ timers = <<>> /\ sockets = [s \in SocketIds |-> "NONE"] /\ created = 0
  /\ wire = <<>> /\ sendResult = "none" /\ nSends = 0 /\ rejected = {}
  /\ isActive = FALSE /\ playbackInterval = FALSE /\ intervals = 0
  /\ starts = <<>>
  /\ jitterBuffer = JitterBufferInit
  /\ statistics = [audioChunksReceived |-> 0, audioChunksSent |-> 0]
  /\ emitted = <<>> /\ egress = <<>> /\ now = ClockBase /\ nFrames = 0
  /\ inMap = FALSE
  /\ session = [status |-> "none", streamingPipeline |-> FALSE,
                startedAt |-> FALSE, endedAt |-> FALSE]
  /\ endCalls = 0 /\ streamPc = "idle" /\ webhookCalls = 0 /\ nWebhooks = 0
  /\ carrierStopped = FALSE
  /\ stopRequested = FALSE
  /\ failsSinceOpen = 0 /\ sinceStop = FALSE /\ stoppedCount = 0
  /\ startedCount = 0 /\ sinceStart = "none" /\ sessionEnded = FALSE
  /\ terminalSignalled = FALSE
  /\ jbOut = <<>> /\ nOps = 0
  /\ frameOf = [k \in 0..MaxInputs |-> 0] /\ carrierClosed = FALSE
  /\ stamped = <<>>
  /\ codec = CodecIdle(<<>>)
  /\ lastLLMText = NoText
  /\ textObs = [lastTranscript |-> NoText, done |-> NoText,
                expected |-> NoText, breath |-> "none", breaths |-> 0]
  /\ jitterSeen = [ticks |-> 0, v |-> 0, n |-> 1]
  /\ activeSessions = [t \in SessionIds |-> NoSession]
  /\ pipelines = [t \in SessionIds |-> NoPipeline]
  /\ carrierConns = [c \in ConnIds |-> [session |-> 0, out |-> <<>>]]
  /\ isoEnv = [now |-> ClockBase, nFrames |-> 0]
  /\ streamMeta = NoToken
  /\ tokEnv = [now |-> ClockBase, steps |-> 0, issued |-> 0, present |-> TRUE]
  /\ issuedAt = [k \in TokenIds |-> 0]
  /\ acceptedBy = [k \in TokenIds |-> 0]
  /\ lastConn = [token |-> 0, result |-> "none"]

InitBase ==
  InitCore /\ sequencer = SequencerInit /\ seqObs = SeqObsAfterRun(0, 0)

InitCommon == InitBase /\ controller = ControllerInit

Init == InitCommon /\ wired = TRUE
InitClient == InitCommon /\ wired = FALSE
InitJB == InitCommon /\ wired = FALSE

\* -------------------------------------------------- upstream socket events
\* 'open' handler; the continuation of a start() awaiting this connect()
\* runs before any other event
SocketOpen(s) ==
  /\ sockets[s] = "CONNECTING"
  /\ sockets' = [sockets EXCEPT ![s] = "OPEN"]
  /\ isConnecting' = FALSE
  /\ isConnected' = TRUE
  /\ reconnectAttempts' = AttemptsAfterOpen(reconnectAttempts)
  /\ reconnectDelay' = initialReconnectDelay
  /\ failsSinceOpen' = 0
  /\ starts' = Unsettled(Settle(starts, s, "resolved"))
  /\ IF Pending(s)
     THEN /\ isActive' = TRUE
          /\ controller' = ControllerStart(controller)
          /\ playbackInterval' = TRUE
          /\ intervals' = intervals + 1
          /\ startedCount' = startedCount + 1
          /\ session' = [session EXCEPT !.streamingPipeline = TRUE]
          /\ emitted' = <<"connected", "started">>
     ELSE /\ UNCHANGED <<isActive, controller, playbackInterval, intervals,
                         startedCount, session>>
          /\ emitted' = IF wired THEN <<"connected">> ELSE <<>>
  /\ UNCHANGED <<ws, timers, created, sendVars, jitterBuffer, sequencer,
                 wired, statistics, egress, now, nFrames,
                 inMap, endCalls, streamPc, webhookCalls, nWebhooks,
                 carrierStopped, stopRequested, sinceStop, stoppedCount,
                 sinceStart, terminalSignalled, sessionEnded, jbOut, nOps>>
  /\ UNCHANGED <<specAux, sideVars>>

\* 'error' handler: a failed handshake, an aborted handshake or a transport
\* error on an open socket; the library emits 'close' afterwards
SocketError(s) ==
  /\ sockets[s] \in {"CONNECTING", "ABORTING", "OPEN"}
  /\ sockets' = [sockets EXCEPT ![s] = "ERRORED"]
  /\ emitted' = IF wired THEN <<"error:UPSTREAM_TRANSPORT">> ELSE <<>>
  /\ session' = IF wired THEN ServiceOnPipelineError(session) ELSE session
  /\ IF ~isConnected
     THEN /\ isConnecting' = FALSE
          /\ starts' = Unsettled(Settle(starts, s, "rejected"))
     ELSE UNCHANGED <<isConnecting, starts>>
  /\ UNCHANGED <<ws, isConnected, reconnectAttempts, reconnectDelay, timers,
                 created, sendVars, pipeVars, wired, statistics, egress, now,
                 nFrames, inMap, endCalls, streamPc, webhookCalls, nWebhooks,
                 carrierStopped, histVars>>
  /\ UNCHANGED <<specAux, sideVars>>

\* 'close' handler, with the pipeline's 'disconnected' listener run inside it
SocketClose(s, code) ==
  /\ sockets[s] \in {"OPEN", "CLOSING", "ERRORED"}
  /\ code \in CloseCodes(sockets[s])
  /\ LET sk == [sockets EXCEPT ![s] = "CLOSED"]
         doStop == wired /\ isActive
     IN /\ IF doStop THEN StopEffect(sk) ELSE NoStop(sk, FALSE, FALSE)
        /\ emitted' = IF ~wired THEN <<>>
                      ELSE IF doStop THEN <<"disconnected", "stopped">>
                      ELSE <<"disconnected">>
  /\ IF ShouldReconnect(code, reconnectAttempts)
     THEN /\ Len(timers) < MaxTimers
          /\ reconnectAttempts' = reconnectAttempts + 1
          /\ failsSinceOpen' = failsSinceOpen + 1
          /\ timers' = AddTimer(timers,
                [delay |-> ReconnectDelayMs(reconnectDelay, reconnectAttempts + 1),
                 nth |-> failsSinceOpen + 1])
     ELSE UNCHANGED <<reconnectAttempts, failsSinceOpen, timers>>
  /\ UNCHANGED <<reconnectDelay, created, sendVars, wired, starts, statistics,
                 egress, now, nFrames, sessVars, startedCount, sinceStart, terminalSignalled,
                 sessionEnded, jbOut, nOps>>
  /\ UNCHANGED <<specAux, sideVars>>

\* the setTimeout callback of scheduleReconnect
TimerFire(i) ==
  /\ i \in DOMAIN timers
  /\ timers' = RemoveAt(timers, i)
  /\ IF ~isConnected /\ ~isConnecting
     THEN NewSocket(sockets)
     ELSE UNCHANGED <<created, sockets, ws, isConnecting>>
  /\ emitted' = <<>>
  /\ UNCHANGED <<isConnected, reconnectAttempts, reconnectDelay, sendVars,
                 pipeVars, pipeAux, sessVars, histVars>>
  /\ UNCHANGED <<specAux, sideVars>>

\* ------------------------------------- a caller driving a bare upstream client
HarnessConnect ==
  /\ IF ~isConnecting /\ ~isConnected
     THEN NewSocket(sockets)
     ELSE UNCHANGED <<created, sockets, ws, isConnecting>>
  /\ stopRequested' = FALSE
  /\ emitted' = <<>>
  /\ UNCHANGED <<isConnected, reconnectAttempts, reconnectDelay, timers,
                 sendVars, pipeVars, pipeAux, sessVars, failsSinceOpen,
                 sinceStop, stoppedCount, startedCount, sinceStart, terminalSignalled,
                 sessionEnded, jbOut, nOps>>
  /\ UNCHANGED <<specAux, sideVars>>

\* disconnect()
HarnessDisconnect ==
  /\ sockets' = LibClose(sockets, ws)
  /\ ws' = 0
  /\ isConnected' = FALSE
  /\ isConnecting' = FALSE
  /\ stopRequested' = TRUE
  /\ emitted' = <<>>
  /\ UNCHANGED <<reconnectAttempts, reconnectDelay, timers, created,
                 sendVars, pipeVars, pipeAux, sessVars, failsSinceOpen,
                 sinceStop, stoppedCount, startedCount, sinceStart, terminalSignalled,
                 sessionEnded, jbOut, nOps>>
  /\ UNCHANGED <<specAux, sideVars>>

\* sendAudio(frame nSends + 1)
HarnessSend ==
  /\ InputsLeft
  /\ nSends' = nSends + 1
  /\ IF CanSend(isConnected, ws, sockets)
     THEN /\ wire' = Append(wire, nSends + 1)
          /\ sendResult' = "ok"
          /\ rejected' = rejected
     ELSE /\ wire' = wire
          /\ sendResult' = "NOT_CONNECTED"
          /\ rejected' = rejected \cup {nSends + 1}
  /\ emitted' = <<>>
  /\ UNCHANGED <<clientVars, pipeVars, pipeAux, sessVars, histVars>>
  /\ UNCHANGED <<specAux, sideVars>>

\* ----------------------------------------------- upstream frames (pipeline)
\* a binary frame: handleMessage emits 'audio', handleIncomingAudio stamps
\* and enqueues it; dt is the time elapsed since the previous frame
UpstreamAudio(s, dt) ==
  /\ wired
  /\ sockets[s] \in {"OPEN", "CLOSING"}
  /\ InputsLeft
  /\ now + dt <= MaxTime
  /\ nFrames' = nFrames + 1
  /\ now' = now + dt
  /\ LET seq == sequencer.sequenceCounter
         jb == AddChunk(jitterBuffer, seq, now + dt)
     IN /\ sequencer' = ProcessChunk(CreateChunk(sequencer), seq)
        /\ jitterBuffer' = jb
        /\ frameOf' = [frameOf EXCEPT ![seq] = nFrames + 1]
        /\ controller' = UpdateBufferLevel(controller,
                            GetCurrentBufferMs(jb.buffer), jb.targetBufferMs)
  /\ emitted' = <<>>
  /\ UNCHANGED <<clientVars, sendVars, isActive, playbackInterval, intervals,
                 wired, starts, statistics, egress, sessVars, histVars>>
  /\ UNCHANGED <<carrierClosed, sideVars>>

\* a text frame of a known type, with an empty text
UpstreamText(s, kind) ==
  /\ wired
  /\ sockets[s] \in {"OPEN", "CLOSING"}
  /\ InputsLeft
  /\ nFrames' = nFrames + 1
  /\ emitted' = <<kind>>
  /\ session' = ServiceOnPipelineText(session)
  /\ lastLLMText' = LastLLMTextAfter(lastLLMText, kind, NoText)
  /\ textObs' = TextObsAfter(textObs, lastLLMText, kind, NoText)
  /\ UNCHANGED <<clientVars, sendVars, pipeVars, wired, starts, statistics,
                 egress, now, inMap, endCalls, streamPc, webhookCalls,
                 nWebhooks, carrierStopped, histVars>>
  /\ UNCHANGED <<specAux, nonTextSide>>

\* one firing of a setInterval callback of startPlaybackLoop
PlaybackTick ==
  /\ intervals > 0
  /\ IF ~isActive \/ ~ControllerIsPlaying(controller)
     THEN /\ UNCHANGED <<jitterBuffer, egress, statistics, textObs>>
          /\ emitted' = <<>>
     ELSE LET r == GetNextChunk(jitterBuffer)
              breathing == BreathingFor(lastLLMText)
          IN /\ r.jb.bufferUnderruns <= MaxUnderruns
             /\ jitterBuffer' = r.jb
             /\ IF r.chunk < 0
                THEN /\ UNCHANGED <<egress, statistics, textObs>>
                     /\ emitted' = <<>>
                ELSE /\ egress' = Append(egress, frameOf[r.chunk])
                     /\ textObs' = [textObs EXCEPT
                                      !.breath = breathing,
                                      !.breaths = IF breathing = "none" THEN @
                                                  ELSE @ + 1]
                     /\ statistics' = [statistics EXCEPT !.audioChunksSent = @ + 1]
                     /\ emitted' = <<"audio">>
  /\ UNCHANGED <<clientVars, sendVars, isActive, playbackInterval, intervals,
                 controller, sequencer, wired, starts, now, nFrames, sessVars,
                 histVars>>
  /\ UNCHANGED <<specAux, lastLLMText, nonTextSide>>

\* ------------------------------------------------ carrier side (session)
\* the call webhook: createSession, then initializeStreamingPipeline up to
\* the await of connect() inside start()
CreateSession ==
  /\ wired /\ ~inMap /\ ~sessionEnded /\ created = 0
  /\ inMap' = TRUE
  /\ session' = [status |-> "ringing", streamingPipeline |-> FALSE,
                 startedAt |-> FALSE, endedAt |-> FALSE]
  /\ NewSocket(sockets)
  /\ starts' = Append(starts, [sock |-> created + 1, st |-> "pending"])
  /\ sinceStop' = FALSE
  /\ stopRequested' = FALSE
  /\ emitted' = <<>>
  /\ UNCHANGED <<isConnected, reconnectAttempts, reconnectDelay, timers,
                 sendVars, pipeVars, wired, statistics, egress, now, nFrames,
                 endCalls, streamPc, webhookCalls, nWebhooks, carrierStopped,
                 failsSinceOpen, stoppedCount, startedCount, sinceStart, terminalSignalled,
                 sessionEnded, jbOut, nOps>>
  /\ UNCHANGED <<specAux, sideVars>>

\* the media stream's 'start' event, up to its await of the call record update
StreamStartBegin ==
  /\ wired /\ inMap /\ streamPc = "idle" /\ ~carrierClosed
  /\ streamPc' = "awaiting"
  /\ emitted' = <<>>
  /\ UNCHANGED <<clientVars, sendVars, pipeVars, pipeAux, inMap, session,
                 endCalls, webhookCalls, nWebhooks, carrierStopped, histVars>>
  /\ UNCHANGED <<specAux, sideVars>>

\* ... and its continuation: updateCallStatus(sessionId, 'in-progress'),
\* which throws (and is caught) when the session is gone
StreamStartResume ==
  /\ streamPc = "awaiting"
  /\ streamPc' = "done"
  /\ IF inMap
     THEN /\ session' = UpdateCallStatus(session, "in-progress")
          /\ sinceStart' = "started"
     ELSE UNCHANGED <<session, sinceStart>>
  /\ emitted' = <<>>
  /\ UNCHANGED <<clientVars, sendVars, pipeVars, pipeAux, inMap, endCalls,
                 webhookCalls, nWebhooks, carrierStopped, stopRequested,
                 failsSinceOpen, sinceStop, stoppedCount, startedCount,
                 terminalSignalled, sessionEnded, jbOut, nOps>>
  /\ UNCHANGED <<specAux, sideVars>>

\* the media stream's 'media' event: processAudioChunk, processIncomingAudio
CarrierMedia ==
  /\ wired /\ inMap /\ streamPc # "idle" /\ ~carrierClosed
  /\ InputsLeft
  /\ nSends' = nSends + 1
  /\ IF session.streamingPipeline /\ isActive /\ Connected(isConnected, ws, sockets)
     THEN IF CanSend(isConnected, ws, sockets)
          THEN /\ wire' = Append(wire, nSends + 1)
               /\ sendResult' = "ok"
               /\ rejected' = rejected
               /\ statistics' = [statistics EXCEPT !.audioChunksReceived = @ + 1]
               /\ emitted' = <<>>
          ELSE /\ wire' = wire
               /\ sendResult' = "NOT_CONNECTED"
               /\ rejected' = rejected \cup {nSends + 1}
               /\ statistics' = statistics
               /\ emitted' = <<"error:NOT_CONNECTED">>
     ELSE /\ wire' = wire
          /\ sendResult' = "dropped"
          /\ rejected' = rejected \cup {nSends + 1}
          /\ statistics' = statistics
          /\ emitted' = <<>>
  /\ UNCHANGED <<clientVars, pipeVars, wired, starts, egress, now, nFrames,
                 sessVars, histVars>>
  /\ UNCHANGED <<specAux, sideVars>>

\* endCall up to its first suspension: stop the pipeline, drop the reference,
\* updateCallStatus(sessionId, 'completed')
EndCallBody ==
  IF ~inMap
  THEN /\ NoStop(sockets, isConnected, isConnecting)
       /\ UNCHANGED <<session, endCalls, sinceStart, terminalSignalled>>
       /\ emitted' = <<>>
  ELSE /\ IF session.streamingPipeline /\ isActive
          THEN /\ StopEffect(sockets)
               /\ emitted' = <<"stopped">>
          ELSE /\ NoStop(sockets, isConnected, isConnecting)
               /\ emitted' = <<>>
       /\ session' = UpdateCallStatus(
                       [session EXCEPT !.streamingPipeline = FALSE], "completed")
       /\ endCalls' = endCalls + 1
       /\ sinceStart' = "carrier"
       /\ terminalSignalled' = TRUE

\* the media stream's 'stop' event
CarrierStop ==
  /\ wired /\ streamPc # "idle" /\ ~carrierStopped /\ ~carrierClosed
  /\ carrierStopped' = TRUE
  /\ EndCallBody
  /\ UNCHANGED <<reconnectAttempts, reconnectDelay, timers, created, sendVars,
                 pipeAux, inMap, streamPc, webhookCalls, nWebhooks,
                 failsSinceOpen, startedCount, sessionEnded, jbOut, nOps>>
  /\ UNCHANGED <<specAux, sideVars>>

\* the media stream socket's 'close' event: audioBuffer = []
CarrierClose ==
  /\ wired /\ (inMap \/ sessionEnded) /\ ~carrierClosed
  /\ carrierClosed' = TRUE
  /\ emitted' = <<>>
  /\ UNCHANGED <<clientVars, sendVars, pipeVars, pipeAux, sessVars, histVars,
                 frameOf, sideVars>>

\* the status webhook up to its await: updateCallStatus with the mapped status
StatusWebhook(cs) ==
  /\ wired /\ inMap
  /\ InputsLeft
  /\ nWebhooks' = nWebhooks + 1
  /\ session' = UpdateCallStatus(session, StatusMap(cs))
  /\ webhookCalls' = IF TerminalCarrierStatus(cs) THEN webhookCalls + 1
                     ELSE webhookCalls
  /\ sinceStart' = "carrier"
  /\ terminalSignalled' = (terminalSignalled \/ TerminalCarrierStatus(cs))
  /\ emitted' = <<>>
  /\ UNCHANGED <<clientVars, sendVars, pipeVars, pipeAux, inMap, endCalls,
                 streamPc, carrierStopped, stopRequested, failsSinceOpen,
                 sinceStop, stoppedCount, startedCount, sessionEnded, jbOut,
                 nOps>>
  /\ UNCHANGED <<specAux, sideVars>>

\* ... and its continuation for a terminal status: endCall
WebhookEndCall ==
  /\ webhookCalls > 0
  /\ webhookCalls' = webhookCalls - 1
  /\ EndCallBody
  /\ UNCHANGED <<reconnectAttempts, reconnectDelay, timers, created, sendVars,
                 pipeAux, inMap, streamPc, nWebhooks, carrierStopped,
                 failsSinceOpen, startedCount, sessionEnded, jbOut, nOps>>
  /\ UNCHANGED <<specAux, sideVars>>

\* the end of endCall: activeSessions.delete(sessionId)
EndCallFinish ==
  /\ endCalls > 0
  /\ endCalls' = endCalls - 1
  /\ inMap' = FALSE
  /\ sessionEnded' = TRUE
  /\ emitted' = <<>>
  /\ UNCHANGED <<clientVars, sendVars, pipeVars, pipeAux, session, streamPc,
                 webhookCalls, nWebhooks, carrierStopped, stopRequested,
                 failsSinceOpen, sinceStop, stoppedCount, startedCount,
                 sinceStart, terminalSignalled, jbOut, nOps>>
  /\ UNCHANGED <<specAux, sideVars>>

\* ----------------------------------------------------- a bare jitter buffer
JBAdd(seq, dt) ==
  /\ nOps < MaxOps
  /\ now + dt <= MaxTime
  /\ nOps' = nOps + 1
  /\ now' = now + dt
  /\ jitterBuffer' = AddChunk(jitterBuffer, seq, now + dt)
  /\ emitted' = <<>>
  /\ UNCHANGED <<clientVars, sendVars, isActive, playbackInterval, intervals,
                 controller, sequencer, wired, starts, statistics, egress,
                 nFrames, sessVars, stopRequested, failsSinceOpen, sinceStop,
                 stoppedCount, startedCount, sinceStart, terminalSignalled, sessionEnded, jbOut>>
  /\ jitterSeen' = JitterSeenAfter(jitterSeen, jitterBuffer, now + dt)
  /\ UNCHANGED <<specAux, nonJBSide>>

JBGet ==
  /\ nOps < MaxOps
  /\ nOps' = nOps + 1
  /\ LET r == GetNextChunk(jitterBuffer)
     IN /\ jitterBuffer' = r.jb
        /\ jbOut' = IF r.chunk < 0 THEN jbOut ELSE Append(jbOut, r.chunk)
  /\ emitted' = <<>>
  /\ UNCHANGED <<clientVars, sendVars, isActive, playbackInterval, intervals,
                 controller, sequencer, pipeAux, sessVars, stopRequested,
                 failsSinceOpen, sinceStop, stoppedCount, startedCount,
                 sinceStart, terminalSignalled, sessionEnded>>
  /\ UNCHANGED <<specAux, sideVars>>

\* clear(): the buffer, the arrival window and the expected sequence are reset
JBClear ==
  /\ nOps < MaxOps
  /\ nOps' = nOps + 1
  /\ jitterBuffer' = JitterBufferClear(jitterBuffer)
  /\ emitted' = <<>>
  /\ UNCHANGED <<clientVars, sendVars, isActive, playbackInterval, intervals,
                 controller, sequencer, pipeAux, sessVars, stopRequested,
                 failsSinceOpen, sinceStop, stoppedCount, startedCount,
                 sinceStart, terminalSignalled, sessionEnded, jbOut>>
  /\ UNCHANGED <<specAux, sideVars>>

\* ------------------------------------ several sessions in one TelephonyService
\* createSession: the session is registered and its pipeline is created
IsoCreateSession(t) ==
  /\ pipelines[t].state = "none"
  /\ activeSessions' = [activeSessions EXCEPT ![t].present = TRUE]
  /\ pipelines' = [pipelines EXCEPT ![t].state = "starting"]
  /\ UNCHANGED <<carrierConns, isoEnv, mainVars, nonIsoSide>>

\* the continuation of initializeStreamingPipeline after pipeline.start()
IsoPipelineStarted(t) ==
  /\ pipelines[t].state = "starting"
  /\ pipelines' = [pipelines EXCEPT ![t].state = "active"]
  /\ activeSessions' = [activeSessions EXCEPT ![t].streamingPipeline = TRUE]
  /\ UNCHANGED <<carrierConns, isoEnv, mainVars, nonIsoSide>>

\* the carrier's media connection c for session id t: setAudioOutputCallback
IsoMediaConnect(c, t) ==
  /\ carrierConns[c].session = 0
  /\ activeSessions[t].present
  /\ carrierConns' = [carrierConns EXCEPT ![c].session = t]
  /\ activeSessions' = [activeSessions EXCEPT ![t].audioOutputCallback = c]
  /\ UNCHANGED <<pipelines, isoEnv, mainVars, nonIsoSide>>

\* an upstream binary frame for the pipeline of session t
IsoUpstreamFrame(t, dt) ==
  /\ pipelines[t].state = "active"
  /\ isoEnv.nFrames < MaxInputs
  /\ isoEnv.now + dt <= MaxTime
  /\ isoEnv' = [now |-> isoEnv.now + dt, nFrames |-> isoEnv.nFrames + 1]
  /\ LET pl == pipelines[t]
         seq == pl.sequencer.sequenceCounter
     IN pipelines' = [pipelines EXCEPT ![t] =
           [pl EXCEPT !.sequencer = ProcessChunk(CreateChunk(pl.sequencer), seq),
                      !.jitterBuffer = AddChunk(pl.jitterBuffer, seq, isoEnv.now + dt),
                      !.frameOf = [@ EXCEPT ![seq] = isoEnv.nFrames + 1]]]
  /\ UNCHANGED <<activeSessions, carrierConns, mainVars, nonIsoSide>>

\* the playback interval of the pipeline of session t; the 'audio' listener
\* hands the frame to the session's audio output callback
IsoTick(t) ==
  /\ pipelines[t].state = "active"
  /\ LET pl == pipelines[t]
         r == GetNextChunk(pl.jitterBuffer)
         c == AudioOutputTarget(activeSessions, t)
     IN /\ r.jb.bufferUnderruns <= MaxUnderruns
        /\ pipelines' = [pipelines EXCEPT ![t].jitterBuffer = r.jb]
        /\ carrierConns' =
             IF r.chunk >= 0 /\ c # 0
             THEN [carrierConns EXCEPT
                     ![c].out = Append(@, <<t, pl.frameOf[r.chunk]>>)]
             ELSE carrierConns
  /\ UNCHANGED <<activeSessions, isoEnv, mainVars, nonIsoSide>>

\* endCall(t): the pipeline the session refers to is stopped, the session is
\* removed
IsoEndCall(t) ==
  /\ activeSessions[t].present
  /\ activeSessions' = [activeSessions EXCEPT ![t].present = FALSE,
                                              ![t].streamingPipeline = FALSE]
  /\ pipelines' =
       IF activeSessions[t].streamingPipeline /\ pipelines[t].state = "active"
       THEN [pipelines EXCEPT ![t].state = "stopped",
               ![t].jitterBuffer = JitterBufferClear(@),
               ![t].sequencer = SequencerInit]
       ELSE pipelines
  /\ UNCHANGED <<carrierConns, isoEnv, mainVars, nonIsoSide>>

IsoStepOf(t) ==
  \/ IsoCreateSession(t)
  \/ IsoPipelineStarted(t)
  \/ \E c \in ConnIds : IsoMediaConnect(c, t)
  \/ \E dt \in Deltas : IsoUpstreamFrame(t, dt)
  \/ IsoTick(t)
  \/ IsoEndCall(t)

\* ------------------------------------------ stream token of one session
\* the twiml endpoint: a fresh token replaces the stored one
TokIssue ==
  /\ tokEnv.present
  /\ tokEnv.issued < MaxTokens
  /\ LET k == tokEnv.issued + 1
     IN /\ tokEnv' = [tokEnv EXCEPT !.issued = k]
        /\ streamMeta' = [streamToken |-> k,
                          streamTokenExpiry |-> tokEnv.now + streamTokenTtlMs]
        /\ issuedAt' = [issuedAt EXCEPT ![k] = tokEnv.now]
  /\ UNCHANGED <<acceptedBy, lastConn, mainVars, nonTokSide>>

TokAdvance(dt) ==
  /\ tokEnv.steps < MaxTokSteps
  /\ tokEnv' = [tokEnv EXCEPT !.now = @ + dt, !.steps = @ + 1]
  /\ UNCHANGED <<streamMeta, issuedAt, acceptedBy, lastConn, mainVars, nonTokSide>>

\* a media connection presenting token (0: no token in the URL)
TokConnect(token) ==
  /\ LET result == ValidateToken(tokEnv.present, streamMeta, token, tokEnv.now)
     IN /\ lastConn' = [token |-> token, result |-> result]
        /\ IF result = "accepted"
           THEN /\ streamMeta' = MetaAfterAccept(streamMeta)
                /\ acceptedBy' = [acceptedBy EXCEPT ![token] = @ + 1]
           ELSE UNCHANGED <<streamMeta, acceptedBy>>
  /\ UNCHANGED <<tokEnv, issuedAt, mainVars, nonTokSide>>

\* endCall removes the session
TokSessionEnd ==
  /\ tokEnv.present
  /\ tokEnv' = [tokEnv EXCEPT !.present = FALSE]
  /\ UNCHANGED <<streamMeta, issuedAt, acceptedBy, lastConn, mainVars, nonTokSide>>

\* ------------------------------------------- a bare playback controller
PCOther ==
  /\ emitted' = <<>>
  /\ UNCHANGED <<clientVars, sendVars, isActive, playbackInterval, intervals,
                 jitterBuffer, sequencer, pipeAux, sessVars, histVars,
                 specAux, sideVars>>

PCStart == controller' = ControllerStart(controller) /\ PCOther

PCPause == controller' = ControllerPause(controller) /\ PCOther

PCResume == controller' = ControllerResume(controller) /\ PCOther

PCStop == controller' = ControllerStop(controller) /\ PCOther

\* updateBufferLevel(level / 100)
PCUpdate(level) ==
  controller' = UpdateBufferLevel(controller, level, 100) /\ PCOther

\* -------------------------------------------------------- a bare sequencer
SeqOther ==
  /\ nOps < MaxOps
  /\ nOps' = nOps + 1
  /\ emitted' = <<>>
  /\ UNCHANGED <<clientVars, sendVars, isActive, playbackInterval, intervals,
                 controller, jitterBuffer, pipeAux, sessVars, stopRequested,
                 failsSinceOpen, sinceStop, stoppedCount, startedCount,
                 sinceStart, terminalSignalled, sessionEnded, jbOut,
                 specAux, nonSeqSide>>

\* createChunk: the chunk is stamped with the counter, which then advances
SeqCreate ==
  /\ stamped' = Append(stamped, sequencer.sequenceCounter)
  /\ seqObs' = seqObs
  /\ sequencer' = CreateChunk(sequencer)
  /\ SeqOther

\* processChunk of a chunk carrying any sequence
SeqProcess(seq) ==
  /\ sequencer' = ProcessChunk(sequencer, seq)
  /\ seqObs' =
       [processed |-> seqObs.processed \cup {seq},
        reported |-> seqObs.reported \cup
                       {seqObs.result.missingSequences[i] :
                          i \in DOMAIN seqObs.result.missingSequences},
        seq |-> seq,
        expectedBefore |-> sequencer.expectedSequence,
        wasProcessed |-> seq \in seqObs.processed,
        pruned |-> PrunesOnProcess(sequencer, seq),
        result |-> ProcessResult(sequencer, seq)]
  /\ stamped' = stamped
  /\ SeqOther

SeqReset ==
  /\ sequencer' = SequencerInit
  /\ stamped' = <<>>
  /\ seqObs' = SeqObsAfterRun(0, 0)
  /\ SeqOther

\* ------------------------------------------------------ a bare converter
CodecOther ==
  /\ emitted' = <<>>
  /\ UNCHANGED <<clientVars, sendVars, pipeVars, pipeAux, sessVars, histVars,
                 specAux, nonCodecSide>>

\* the next buffer to convert
CodecInput(buf) ==
  /\ codec.outcome # "none"
  /\ codec' = CodecIdle(buf)
  /\ CodecOther

\* convertPcm16ToUlaw(codec.input)
CodecEncode ==
  /\ codec.outcome = "none"
  /\ LET r == ConvertPcm16ToUlaw(codec.input)
     IN codec' = [codec EXCEPT !.outcome = r.outcome, !.output = r.output]
  /\ CodecOther

\* --------------------------------------- a caller driving a bare pipeline
\* start(). When connect() returns at its guard the await completes at once
\* and start() runs to its end; otherwise start() waits for the 'open' or
\* 'error' of the socket that connect() created
PipeStart ==
  /\ wired
  /\ nOps < MaxCalls
  /\ nOps' = nOps + 1
  /\ IF isActive
     THEN /\ UNCHANGED <<isActive, controller, playbackInterval, intervals,
                         startedCount, created, sockets, ws, isConnecting,
                         starts, textObs, sinceStop, stopRequested>>
          /\ emitted' = <<>>
     ELSE /\ textObs' = [textObs EXCEPT !.expected = NoText]
          /\ sinceStop' = FALSE
          /\ stopRequested' = FALSE
          /\ IF isConnecting \/ isConnected
             THEN /\ isActive' = TRUE
                  /\ controller' = ControllerStart(controller)
                  /\ playbackInterval' = TRUE
                  /\ intervals' = intervals + 1
                  /\ startedCount' = startedCount + 1
                  /\ emitted' = <<"started">>
                  /\ UNCHANGED <<created, sockets, ws, isConnecting, starts>>
             ELSE /\ NewSocket(sockets)
                  /\ starts' = Append(starts, [sock |-> created + 1,
                                               st |-> "pending"])
                  /\ emitted' = <<>>
                  /\ UNCHANGED <<isActive, controller, playbackInterval,
                                 intervals, startedCount>>
  /\ UNCHANGED <<isConnected, reconnectAttempts, reconnectDelay, timers,
                 sendVars, jitterBuffer, sequencer, wired, statistics, egress,
                 now, nFrames, sessVars, failsSinceOpen, stoppedCount,
                 sinceStart, terminalSignalled, sessionEnded, jbOut>>
  /\ UNCHANGED <<specAux, lastLLMText, nonTextSide>>

\* stop()
PipeStop ==
  /\ wired
  /\ nOps < MaxCalls
  /\ nOps' = nOps + 1
  /\ IF isActive
     THEN /\ StopEffect(sockets)
          /\ emitted' = <<"stopped">>
     ELSE /\ NoStop(sockets, isConnected, isConnecting)
          /\ emitted' = <<>>
  /\ UNCHANGED <<reconnectAttempts, reconnectDelay, timers, created, sendVars,
                 pipeAux, sessVars, failsSinceOpen, startedCount, sinceStart,
                 terminalSignalled, sessionEnded, jbOut>>
  /\ UNCHANGED <<specAux, sideVars>>

\* a text frame of a known type carrying a text
PipeText(s, kind, text) ==
  /\ wired
  /\ sockets[s] \in {"OPEN", "CLOSING"}
  /\ InputsLeft
  /\ nFrames' = nFrames + 1
  /\ emitted' = <<kind>>
  /\ lastLLMText' = LastLLMTextAfter(lastLLMText, kind, text)
  /\ textObs' = TextObsAfter(textObs, lastLLMText, kind, text)
  /\ UNCHANGED <<clientVars, sendVars, pipeVars, wired, starts, statistics,
                 egress, now, sessVars, histVars>>
  /\ UNCHANGED <<specAux, nonTextSide>>

\* --------------------------------------------------------- specifications
\* one call session with its pipeline and upstream client
Next ==
  \/ CreateSession
  \/ \E s \in SocketIds : SocketOpen(s)
  \/ \E s \in SocketIds : SocketError(s)
  \/ \E s \in SocketIds : \E code \in {NORMAL_CLOSURE, ABNORMAL_CLOSURE} : SocketClose(s, code)
  \/ \E i \in 1..MaxTimers : TimerFire(i)
  \/ \E s \in SocketIds : \E dt \in Deltas : UpstreamAudio(s, dt)
  \/ \E s \in SocketIds : \E kind \in {"transcript", "llm_token", "llm_done"} : UpstreamText(s, kind)
  \/ PlaybackTick
  \/ StreamStartBegin
  \/ StreamStartResume
  \/ CarrierMedia
  \/ CarrierStop
  \/ CarrierClose
  \/ \E cs \in CarrierStatuses : StatusWebhook(cs)
  \/ WebhookEndCall
  \/ EndCallFinish

Spec == Init /\ [][Next]_vars

\* the same, with the playback interval firing for as long as it is set
SpecFair == Spec /\ WF_vars(PlaybackTick)

\* a bare upstream client driven by a caller
NextClient ==
  \/ HarnessConnect
  \/ HarnessDisconnect
  \/ HarnessSend
  \/ \E s \in SocketIds : SocketOpen(s)
  \/ \E s \in SocketIds : SocketError(s)
  \/ \E s \in SocketIds : \E code \in {NORMAL_CLOSURE, ABNORMAL_CLOSURE} : SocketClose(s, code)
  \/ \E i \in 1..MaxTimers : TimerFire(i)

SpecClient == InitClient /\ [][NextClient]_vars

\* a pipeline with its upstream client, started and stopped by a caller,
\* while the upstream sends no frames
NextPipe ==
  \/ PipeStart
  \/ PipeStop
  \/ \E s \in SocketIds : SocketOpen(s)
  \/ \E s \in SocketIds : SocketError(s)
  \/ \E s \in SocketIds : \E code \in {NORMAL_CLOSURE, ABNORMAL_CLOSURE} : SocketClose(s, code)
  \/ \E i \in 1..MaxTimers : TimerFire(i)
  \/ PlaybackTick

SpecPipe == Init /\ [][NextPipe]_vars

\* the same pipeline receiving text and audio frames, while the upstream
\* sockets open without error and close normally
NextText ==
  \/ PipeStart
  \/ PipeStop
  \/ \E s \in SocketIds : SocketOpen(s)
  \/ \E s \in SocketIds : SocketClose(s, NORMAL_CLOSURE)
  \/ \E s \in SocketIds : \E dt \in Deltas : UpstreamAudio(s, dt)
  \/ \E s \in SocketIds : \E text \in TokenTexts : PipeText(s, "llm_token", text)
  \/ \E s \in SocketIds : PipeText(s, "transcript", Sentence(SentenceWords))
  \/ \E s \in SocketIds : PipeText(s, "llm_done", NoText)
  \/ PlaybackTick

SpecText == Init /\ [][NextText]_vars

\* a bare jitter buffer
NextJB ==
  \/ \E seq \in 0..MaxSeq : \E dt \in Deltas : JBAdd(seq, dt)
  \/ JBGet
  \/ JBClear

SpecJB == InitJB /\ [][NextJB]_vars

\* several sessions, each with its own pipeline and carrier connection
InitIso == InitCommon /\ wired = FALSE

NextIso == \E t \in SessionIds : IsoStepOf(t)

SpecIso == InitIso /\ [][NextIso]_vars

\* the stream token of one session
InitToken == InitCommon /\ wired = FALSE

NextToken ==
  \/ TokIssue
  \/ \E dt \in TokDeltas : TokAdvance(dt)
  \/ \E token \in 0..MaxTokens : TokConnect(token)
  \/ TokSessionEnd

SpecToken == InitToken /\ [][NextToken]_vars

\* a bare playback controller, for every configuration with
\* minSpeed <= baseSpeed <= maxSpeed
InitPC ==
  /\ InitBase /\ wired = FALSE
  /\ controller \in {ControllerNew(lo, hi) : lo \in MinSpeeds, hi \in MaxSpeeds}

NextPC ==
  \/ PCStart
  \/ PCPause
  \/ PCResume
  \/ PCStop
  \/ \E level \in Levels : PCUpdate(level)

SpecPC == InitPC /\ [][NextPC]_vars

\* a bare sequencer
InitSeq == InitCommon /\ wired = FALSE

NextSeq ==
  \/ SeqCreate
  \/ \E seq \in 0..MaxSeq : SeqProcess(seq)
  \/ SeqReset

SpecSeq == InitSeq /\ [][NextSeq]_vars

\* a sequencer that has processed a run of consecutive chunks, then is
\* given chunks around its expectation and around the clean-up threshold
InitSeqLong ==
  /\ InitCore /\ controller = ControllerInit /\ wired = FALSE
  /\ \E first \in RunFirsts, n \in RunLengths :
       /\ sequencer = ProcessRun(SequencerInit, first, n)
       /\ seqObs = SeqObsAfterRun(first, n)

SeqInputs(sq) ==
  {x \in {0, 1, sq.expectedSequence - seenCapacity - 1,
          sq.expectedSequence - seenCapacity, sq.expectedSequence - 1,
          sq.expectedSequence, sq.expectedSequence + 1,
          sq.expectedSequence + MaxSeq} : x >= 0}

NextSeqLong ==
  \/ SeqCreate
  \/ \E seq \in SeqInputs(sequencer) : SeqProcess(seq)
  \/ SeqReset

SpecSeqLong == InitSeqLong /\ [][NextSeqLong]_vars

\* a bare audio converter
InitCodec == InitCommon /\ wired = FALSE

NextCodec ==
  \/ \E buf \in PcmInputs : CodecInput(buf)
  \/ CodecEncode

SpecCodec == InitCodec /\ [][NextCodec]_vars

\* ------------------------------------------------------------------ claims
UpstreamStep ==
  \/ \E s \in SocketIds : SocketOpen(s)
  \/ \E s \in SocketIds : SocketError(s)
  \/ \E s \in SocketIds : \E code \in {NORMAL_CLOSURE, ABNORMAL_CLOSURE} : SocketClose(s, code)
  \/ \E i \in 1..MaxTimers : TimerFire(i)
  \/ \E s \in SocketIds : \E dt \in Deltas : UpstreamAudio(s, dt)
  \/ \E s \in SocketIds : \E kind \in {"transcript", "llm_token", "llm_done"} : UpstreamText(s, kind)

\* C1: when the upstream closes with a code other than 1000 while the pipeline
\* is active, the pipeline stays active, its playback timer keeps running and
\* its jitter buffer is kept.
C1_DisconnectKeepsPipelineRunning ==
  [][(isActive /\ \E s \in SocketIds : SocketClose(s, ABNORMAL_CLOSURE))
       => (isActive' /\ intervals' = intervals /\ jitterBuffer' = jitterBuffer)]_vars

\* C2: no upstream event (open, error, close, reconnect timer, frame) changes
\* the session status or removes the session; from the carrier stream start
\* until a carrier-side status or terminal signal the status is in-progress.
C2_UpstreamNeverEndsSession ==
  /\ []((sinceStart = "started" /\ ~terminalSignalled)
           => (inMap /\ session.status = "in-progress"))
  /\ [][UpstreamStep => (session'.status = session.status /\ inMap' = inMap)]_vars

\* the reconnect attempts are exhausted by the close just handled, in a
\* session whose stream has started and that no carrier signal has ended
C2_Witness ==
  /\ sinceStart = "started" /\ ~terminalSignalled
  /\ inMap /\ session.status = "in-progress"
  /\ emitted = <<"disconnected">>
  /\ reconnectAttempts = maxReconnectAttempts /\ timers = <<>>

\* C3: after disconnect() the client creates no socket until connect() is
\* called again, and a close with code 1000 schedules no reconnect.
C3_NoReconnectAfterDisconnect ==
  [][/\ (stopRequested /\ stopRequested') => created' = created
     /\ (\E s \in SocketIds : SocketClose(s, NORMAL_CLOSURE)) => timers' = timers]_vars

\* C4: after stop() and until start() is called again the pipeline emits no
\* event.
C4_SilentAfterStop == [][sinceStop => emitted' = <<>>]_vars

\* C5: once a session has been ended by its terminal signals, the pipeline
\* that was started for it has been torn down exactly once: 'stopped' was
\* emitted once and the pipeline is not active.
C5_TeardownExactlyOnce ==
  (sessionEnded /\ endCalls = 0 /\ webhookCalls = 0 /\ startedCount > 0)
     => (stoppedCount = 1 /\ ~isActive)

\* C6: the reconnect attempt counter never exceeds 5, no more than 5 reconnects
\* are scheduled without an open in between, and no step schedules a timer
\* while the counter is at 5.
C6_ReconnectBound ==
  /\ [](reconnectAttempts <= 5 /\ failsSinceOpen <= 5)
  /\ [][reconnectAttempts = 5 => Len(timers') <= Len(timers)]_vars

\* five reconnects were scheduled and consumed, the last socket has closed
\* and nothing is scheduled any more
C6_Witness ==
  /\ reconnectAttempts = 5 /\ timers = <<>>
  /\ created > 5 /\ sockets[created] = "CLOSED"
  /\ ~isConnected /\ ~isConnecting

\* C7: the k-th reconnect scheduled since the last successful open has delay
\* min(1000 * 2^(k-1), 30000) ms, so the first one after an open has 1000 ms.
C7_BackoffDelays ==
  \A i \in DOMAIN timers :
     /\ timers[i].delay = Min(1000 * 2 ^ (timers[i].nth - 1), 30000)
     /\ timers[i].nth = 1 => timers[i].delay = 1000

\* a fifth reconnect (16 s) is still outstanding while, after an open, a
\* first reconnect (1 s) has been scheduled
C7_Witness ==
  /\ \E i \in DOMAIN timers : timers[i].nth = 5 /\ timers[i].delay = 16000
  /\ \E j \in DOMAIN timers : timers[j].nth = 1 /\ timers[j].delay = 1000
  /\ reconnectAttempts = 1

\* C8: a close that arrives with the attempt counter at 5 surfaces an error
\* event of kind BACKOFF_EXHAUSTED and leaves the session in place.
C8_ExhaustionSurfaced ==
  [][(reconnectAttempts = 5 /\ \E s \in SocketIds : SocketClose(s, ABNORMAL_CLOSURE))
       => /\ \E i \in DOMAIN emitted' : emitted'[i] = "error:BACKOFF_EXHAUSTED"
          /\ inMap' = inMap]_vars

\* C9: sendAudio puts the frame on the wire only when the client is connected
\* and its socket is open; when the client is not connected the call fails
\* with not-connected, the wire and the client are unchanged, and a rejected
\* frame never reaches the wire.
C9_SendOnlyWhenOpen ==
  /\ [](\A f \in rejected : \A i \in DOMAIN wire : wire[i] # f)
  /\ [][nSends' = nSends + 1
          => /\ sendResult' = "ok"
                  => (isConnected /\ ws # 0 /\ sockets[ws] = "OPEN"
                        /\ wire' = Append(wire, nSends + 1))
             /\ ~isConnected
                  => (sendResult' = "NOT_CONNECTED" /\ wire' = wire
                        /\ rejected' = rejected \cup {nSends + 1}
                        /\ UNCHANGED clientVars)]_vars

\* one frame was sent while open, a later one was rejected, and the client is
\* waiting for a reconnect timer
C9_Witness ==
  /\ sendResult = "NOT_CONNECTED" /\ wire # <<>> /\ rejected # {}
  /\ ~isConnected /\ ~isConnecting /\ timers # <<>>

\* C10: the frames returned by successive dequeues have strictly increasing
\* sequence numbers.
C10_DequeueOrdered ==
  \A i, j \in DOMAIN jbOut : i < j => jbOut[i] < jbOut[j]

\* C11: within one pipeline the frames emitted as 'audio' are upstream frames,
\* in the order they arrived and each at most once, and the frames put on the
\* upstream wire are in the order they were pushed.
C11_EgressInArrivalOrder ==
  /\ \A i \in DOMAIN egress : egress[i] \in 1..nFrames
  /\ \A i, j \in DOMAIN egress : i < j => egress[i] < egress[j]
  /\ \A i, j \in DOMAIN wire : i < j => wire[i] < wire[j]
  /\ \A i, j \in DOMAIN jitterBuffer.buffer :
        i < j => jitterBuffer.buffer[i] # jitterBuffer.buffer[j]

\* two upstream frames have been emitted
C11_Witness == Len(egress) = 2 /\ nFrames = 2

InBuffer(f) ==
  \E i \in DOMAIN jitterBuffer.buffer : frameOf[jitterBuffer.buffer[i]] = f

InEgress(f) == \E i \in DOMAIN egress : egress[i] = f

\* C12: a frame held in the jitter buffer of an active pipeline is eventually
\* emitted if no further upstream frame arrives and the playback loop keeps
\* ticking (the pipeline stays active).
C12_BufferDrains ==
  \A f \in 1..MaxInputs : \A n \in 1..MaxInputs :
     (InBuffer(f) /\ nFrames = n /\ isActive)
        ~> (InEgress(f) \/ nFrames # n \/ ~isActive)

\* C13: a frame received by the pipeline of session t is delivered only to a
\* carrier connection of session t, and a step of one session changes nothing
\* of any other session: its entry, its pipeline, its connections' output.
C13_NoCrossSession ==
  /\ [](\A c \in ConnIds : \A i \in DOMAIN carrierConns[c].out :
           carrierConns[c].out[i][1] = carrierConns[c].session)
  /\ [][\A t \in SessionIds : IsoStepOf(t) =>
          \A u \in SessionIds \ {t} :
             /\ activeSessions'[u] = activeSessions[u]
             /\ pipelines'[u] = pipelines[u]
             /\ \A c \in ConnIds : carrierConns[c].session = u
                                     => carrierConns'[c] = carrierConns[c]]_vars

\* two sessions are live at once and each has had a frame delivered
C13_Witness ==
  \E c, d \in ConnIds :
     /\ carrierConns[c].session = 1 /\ carrierConns[c].out # <<>>
     /\ carrierConns[d].session = 2 /\ carrierConns[d].out # <<>>
     /\ pipelines[1].state = "active" /\ pipelines[2].state = "active"

\* C14: a stream token is accepted by at most one connection; a connection
\* presenting the latest issued token, not yet used, before its expiry (issue
\* time + 5 minutes) is accepted and the token is gone afterwards; a
\* connection presenting a used token, an expired token or any other token is
\* rejected.
C14_TokenOneTime ==
  /\ [](\A k \in TokenIds : acceptedBy[k] <= 1)
  /\ [][\A token \in 0..MaxTokens : TokConnect(token) =>
          LET current == tokEnv.present /\ token # 0 /\ token = tokEnv.issued
              unused == acceptedBy[token] = 0
          IN /\ (current /\ unused /\ tokEnv.now < issuedAt[token] + 300000)
                  => (lastConn'.result = "accepted" /\ streamMeta'.streamToken = 0)
             /\ (~current \/ ~unused \/ tokEnv.now > issuedAt[token] + 300000)
                  => lastConn'.result # "accepted"]_vars

\* a token was accepted once and the connection that presented it again was
\* rejected
C14_Witness ==
  \E k \in TokenIds :
     acceptedBy[k] = 1 /\ lastConn.token = k /\ lastConn.result = "Unauthorized"

\* C15: once endCall has completed and the session is removed, the pipeline
\* created for the session is not active.
C15_NoPipelineOutlivesSession == (sessionEnded /\ ~inMap) => ~isActive

\* C16: when the carrier's media stream socket closes, the pipeline is stopped
\* and the session is removed or its endCall is under way.
C16_CarrierCloseTearsDown ==
  [][CarrierClose => (~isActive' /\ (~inMap' \/ endCalls' > 0))]_vars

\* C20: after stop() the jitter buffer stays empty and the sequencer stays at
\* its initial state, whatever arrives late.
C20_CleanAfterStop ==
  sinceStop => (jitterBuffer.buffer = <<>> /\ sequencer = SequencerInit)

\* C17: the target depth of the jitter buffer is always within
\* [minBufferMs, maxBufferMs], and an adaptation tick (not the first) whose
\* measured jitter exceeds every jitter measured at earlier ticks does not
\* lower the target depth.
C17_TargetDepthBounded ==
  /\ [](/\ minBufferMs <= jitterBuffer.targetBufferMs
        /\ jitterBuffer.targetBufferMs <= maxBufferMs)
  /\ [][(/\ jitterSeen.ticks >= 1
         /\ jitterSeen'.ticks = jitterSeen.ticks + 1
         /\ JitterExceeds(jitterSeen'.v, jitterSeen'.n, jitterSeen.v, jitterSeen.n))
          => jitterBuffer'.targetBufferMs >= jitterBuffer.targetBufferMs]_vars

\* a second or later tick measured a jitter above zero and the target depth
\* was raised to the maximum
C17_Witness ==
  /\ jitterSeen.ticks >= 2 /\ jitterSeen.v > 0
  /\ jitterBuffer.targetBufferMs = maxBufferMs
  /\ jitterBuffer.lastAdaptationTime = now

\* C18: the playback controller's current speed is within
\* [minSpeed, maxSpeed] after any sequence of start, pause, resume, stop and
\* updateBufferLevel calls.
C18_SpeedWithinLimits ==
  /\ controller.minSpeed <= controller.currentSpeed
  /\ controller.currentSpeed <= controller.maxSpeed

\* a low buffer level asked for a speed below the minimum and the speed was
\* held at the minimum
C18_Witness ==
  /\ controller.speedAdjustment = -speedStep
  /\ baseSpeed - speedStep < controller.minSpeed
  /\ controller.currentSpeed = controller.minSpeed
  /\ controller.isBuffering

\* C19: the sequences stamped by createChunk since the last reset are
\* 0, 1, 2, ... in this order, whatever processChunk calls are interleaved.
C19_StampsCountFromZero ==
  \A i \in DOMAIN stamped : stamped[i] = i - 1

\* three chunks were stamped with processChunk calls in between
C19_Witness ==
  /\ Len(stamped) = 3
  /\ sequencer.receivedSequences # {}
  /\ sequencer.expectedSequence > sequencer.sequenceCounter

\* the sequence of the last processChunk call was never passed before
FreshFrame == seqObs.seq >= 0 /\ ~seqObs.wasProcessed

MissingSet ==
  {seqObs.result.missingSequences[i] :
     i \in DOMAIN seqObs.result.missingSequences}

\* C21: processChunk of a not yet seen chunk whose sequence s is above the
\* expected sequence e reports a gap whose missing sequences are exactly
\* e, e+1, ..., s-1 and leaves the expected sequence at s+1; no call reports
\* as missing a sequence that an earlier call already reported.
C21_GapReportedOnce ==
  /\ (FreshFrame /\ seqObs.seq > seqObs.expectedBefore) =>
       /\ seqObs.result.hasGap
       /\ seqObs.result.missingSequences =
            [i \in 1..(seqObs.seq - seqObs.expectedBefore) |->
               seqObs.expectedBefore + i - 1]
       /\ sequencer.expectedSequence = seqObs.seq + 1
  /\ MissingSet \cap seqObs.reported = {}

\* a second gap of several sequences, after an earlier gap was reported
C21_Witness ==
  /\ FreshFrame /\ seqObs.seq > seqObs.expectedBefore
  /\ Len(seqObs.result.missingSequences) >= 2
  /\ seqObs.reported # {}

\* C22 as stated: every chunk whose sequence was already passed to
\* processChunk since the last reset is classified as a duplicate.
C22_DuplicateRejected ==
  (seqObs.seq >= 0 /\ seqObs.wasProcessed) => seqObs.result.isDuplicate

\* C22: a chunk whose sequence was already passed to processChunk since the
\* last reset and is not more than the seen-set capacity below the expected
\* sequence is classified as a duplicate.
C22_RecentDuplicateRejected ==
  (/\ seqObs.seq >= 0 /\ seqObs.wasProcessed
   /\ seqObs.seq >= seqObs.expectedBefore - seenCapacity)
    => seqObs.result.isDuplicate

\* the oldest sequence still kept is passed again after a clean-up has run
C22_Witness ==
  /\ seqObs.wasProcessed
  /\ seqObs.seq = seqObs.expectedBefore - seenCapacity
  /\ Cardinality(seqObs.processed) > seenCapacity
  /\ seqObs.result.isDuplicate

\* C29: the seen-set never holds more than its capacity; a clean-up leaves
\* only sequences at or above expected - capacity; a not yet seen chunk
\* exactly the capacity below the expected sequence is out of order, stays
\* in the seen-set and leaves the expected sequence unchanged.
C29_SeenSetBounded ==
  /\ Cardinality(sequencer.receivedSequences) <= seenCapacity
  /\ seqObs.pruned =>
       \A x \in sequencer.receivedSequences :
          x >= sequencer.expectedSequence - seenCapacity
  /\ (FreshFrame /\ seqObs.seq = seqObs.expectedBefore - seenCapacity) =>
       /\ seqObs.result.isOutOfOrder
       /\ ~seqObs.result.isDuplicate /\ ~seqObs.result.hasGap
       /\ sequencer.expectedSequence = seqObs.expectedBefore
       /\ seqObs.seq \in sequencer.receivedSequences

\* a not yet seen chunk exactly the capacity below the expectation fills
\* the seen-set to its capacity
C29_Witness ==
  /\ FreshFrame /\ seqObs.seq = seqObs.expectedBefore - seenCapacity
  /\ Cardinality(sequencer.receivedSequences) = seenCapacity

\* a clean-up has just run
C29_PruneWitness ==
  seqObs.pruned /\ Cardinality(sequencer.receivedSequences) < seenCapacity

\* C30: the value returned by processChunk has at most one of isOutOfOrder,
\* isDuplicate and hasGap set, and every sequence in the seen-set is below
\* the expected sequence, so no chunk is both a duplicate and a gap.
C30_ClassificationWellDefined ==
  /\ ~(seqObs.result.isOutOfOrder /\ seqObs.result.isDuplicate)
  /\ ~(seqObs.result.isOutOfOrder /\ seqObs.result.hasGap)
  /\ ~(seqObs.result.isDuplicate /\ seqObs.result.hasGap)
  /\ \A x \in sequencer.receivedSequences : x < sequencer.expectedSequence

\* a duplicate that is also below the expected sequence, and a gap
C30_Witness ==
  /\ seqObs.result.isDuplicate
  /\ seqObs.seq < seqObs.expectedBefore
  /\ seqObs.reported # {}

\* the number of buffered chunks carrying sequence v
CountOf(buf, v) == Cardinality({i \in DOMAIN buf : buf[i] = v})

LowestOf(buf, seq) ==
  CHOOSE v \in {buf[i] : i \in DOMAIN buf} \cup {seq} :
    \A i \in DOMAIN buf : v <= buf[i] /\ v <= seq

\* C23: after every addChunk the measured depth is at most maxBufferMs; an
\* addChunk into a buffer at exactly maxBufferMs takes the chunk in, removes
\* exactly one chunk, the one with the lowest sequence, and adds one to the
\* overrun counter.
C23_OverrunEvictsOne ==
  [][\A seq \in 0..MaxSeq, dt \in Deltas :
       JBAdd(seq, dt) =>
         /\ GetCurrentBufferMs(jitterBuffer'.buffer) <= maxBufferMs
         /\ GetCurrentBufferMs(jitterBuffer.buffer) = maxBufferMs =>
              /\ Len(jitterBuffer'.buffer) = Len(jitterBuffer.buffer)
              /\ jitterBuffer'.bufferOverruns = jitterBuffer.bufferOverruns + 1
              /\ \A v \in 0..MaxSeq :
                   CountOf(jitterBuffer'.buffer, v) =
                     CountOf(jitterBuffer.buffer, v)
                       + (IF v = seq THEN 1 ELSE 0)
                       - (IF v = LowestOf(jitterBuffer.buffer, seq)
                          THEN 1 ELSE 0)]_vars

\* an overrun has happened and the buffer is left with several sequences,
\* the newest one among them
C23_Witness ==
  /\ jitterBuffer.bufferOverruns = 1
  /\ GetCurrentBufferMs(jitterBuffer.buffer) + estimatedChunkDurationMs
       > maxBufferMs
  /\ Len(jitterBuffer.buffer) >= 2
  /\ jitterBuffer.buffer[Len(jitterBuffer.buffer)] + 1
       = jitterBuffer.expectedSequence
  /\ jitterBuffer.buffer[1] > 0

\* C24: getNextChunk returns the lowest-sequence buffered chunk when the
\* depth is at least the target depth, and otherwise returns null and adds
\* one to the underrun counter.
C24_DequeueOrUnderrun ==
  [][JBGet =>
       IF GetCurrentBufferMs(jitterBuffer.buffer) >= jitterBuffer.targetBufferMs
       THEN /\ jbOut' = Append(jbOut, LowestOf(jitterBuffer.buffer,
                                               Head(jitterBuffer.buffer)))
            /\ jitterBuffer'.buffer = Tail(jitterBuffer.buffer)
            /\ jitterBuffer'.bufferUnderruns = jitterBuffer.bufferUnderruns
       ELSE /\ jbOut' = jbOut
            /\ jitterBuffer'.buffer = jitterBuffer.buffer
            /\ jitterBuffer'.bufferUnderruns
                 = jitterBuffer.bufferUnderruns + 1]_vars

\* the counters the pipeline keeps, the received-chunks counter first
PipelineCounters ==
  <<statistics.audioChunksReceived, statistics.audioChunksSent,
    jitterBuffer.totalPackets, jitterBuffer.outOfOrderPackets,
    jitterBuffer.packetLoss, jitterBuffer.bufferUnderruns,
    jitterBuffer.bufferOverruns>>

\* C25: processIncomingAudio on an active pipeline whose upstream is not
\* open sends and queues nothing, raises and emits no error, leaves the
\* received-chunks counter unchanged and adds one to a counter of dropped
\* chunks.
C25_DropCounted ==
  [][(/\ CarrierMedia
      /\ session.streamingPipeline /\ isActive
      /\ ~Connected(isConnected, ws, sockets)) =>
       /\ wire' = wire
       /\ emitted' = <<>>
       /\ statistics'.audioChunksReceived = statistics.audioChunksReceived
       /\ \E i \in 2..Len(PipelineCounters) :
            PipelineCounters'[i] = PipelineCounters[i] + 1]_vars

\* C26: convertPcm16ToUlaw of a buffer whose byte length is odd fails with
\* INVALID_FORMAT and returns no bytes.
C26_OddEncodeFails ==
  (codec.outcome # "none" /\ Len(codec.input) % 2 = 1) =>
    (codec.outcome = "INVALID_FORMAT" /\ codec.output = <<>>)

\* C27: a start() waiting for its connect() always completes: the promise
\* bound to a connection attempt is eventually resolved or rejected, even
\* when the attempt neither opens nor fails.
C27_StartCompletes ==
  \A s \in SocketIds : Pending(s) ~> ~Pending(s)

\* C28: when the connection attempt a start() is waiting for fails, the
\* pipeline is started all the same: it is active, its playback interval is
\* set, and the session, still registered, holds a reference to it.
C28_StartsDespiteFailure ==
  [][\A s \in SocketIds :
       (SocketError(s) /\ Pending(s) /\ inMap) =>
         /\ isActive' /\ playbackInterval'
         /\ ControllerIsPlaying(controller')
         /\ session'.streamingPipeline]_vars

\* C31: after any sequence of enqueues (in-order, late, duplicate), dequeues
\* and clears, the frames held by the jitter buffer are in non-decreasing
\* sequence order.
IsSorted(buf) == \A i \in 1..(Len(buf) - 1) : buf[i] <= buf[i + 1]

C31_BufferSorted == IsSorted(jitterBuffer.buffer)

\* a late chunk was inserted before a chunk that arrived earlier, and the
\* buffer holds the chunk that precedes the expected sequence at its end
C31_Witness ==
  /\ jitterBuffer.outOfOrderPackets >= 1
  /\ Len(jitterBuffer.buffer) >= 2
  /\ jitterBuffer.buffer[Len(jitterBuffer.buffer)] + 1 = jitterBuffer.expectedSequence
  /\ jitterBuffer.buffer[1] < jitterBuffer.buffer[2]

\* C32: on every enqueue after the first, the value appended to the arrival
\* window is the time between this arrival and the previous one, and the
\* window never holds more than arrivalWindow values (so that a constant
\* spacing fills the window with one value, jitter 0 and the minimum target).
\* The previous arrival of a bare buffer is the clock before the enqueue.
C32_WindowHoldsDeltas ==
  [][\A seq \in 0..MaxSeq, dt \in Deltas :
       (JBAdd(seq, dt) /\ Len(jitterBuffer.arrivalTimes) > 0)
         => LET arr == jitterBuffer'.arrivalTimes
            IN /\ Len(arr) <= arrivalWindow
               /\ arr[Len(arr)] = dt]_vars

\* the level handleIncomingAudio hands to the controller, in hundredths
BufferLevelOf(jb) ==
  Min(100, (GetCurrentBufferMs(jb.buffer) * 100) \div jb.targetBufferMs)

\* C33: after every enqueue into the jitter buffer (an upstream audio frame)
\* and after every dequeue from it (a playback tick that took a chunk), the
\* controller's buffer level is min(1, current depth / target depth).
C33_LevelFollowsBuffer ==
  [][(\/ \E s \in SocketIds : \E dt \in Deltas : UpstreamAudio(s, dt)
      \/ (PlaybackTick /\ jitterBuffer'.buffer # jitterBuffer.buffer))
       => controller'.bufferLevel = BufferLevelOf(jitterBuffer')]_vars

\* C34: every byte the encoder produced has its sign bit (128) set exactly
\* when the sample it encodes is negative, and the exponent computed for the
\* sample is within 0..7.
C34_SignAndExponent ==
  codec.outcome = "ok" =>
    \A i \in 1..Len(codec.output) :
      LET sample == ReadInt16LE(codec.input, (i - 1) * 4)
      IN /\ (codec.output[i] >= 128) <=> (sample < 0)
         /\ UlawExponent(sample) \in 0..7

\* the sockets of the client that are connecting or open
ConnectingOrOpen == {s \in SocketIds : sockets[s] \in {"CONNECTING", "OPEN"}}

\* C36: at any time the upstream client has at most one socket that is
\* connecting or open.
C36_OneSocket == Cardinality(ConnectingOrOpen) <= 1

\* C39: once a session's status is completed or failed it never changes
\* again (so a session ended by a failed carrier status stays failed), and
\* its start and end timestamps, once set, are not set again.
C39_TerminalStatusStable ==
  [][inMap =>
       /\ (session.status \in {"completed", "failed"}
             => session'.status = session.status)
       /\ (session.startedAt => session'.startedAt)
       /\ (session.endedAt => session'.endedAt)]_vars

\* a sentence of more than 15 words ending with a period
LongSentence(text) == EndsWithPeriod(text) /\ SplitLength(text) > 15

\* C35: with breathing enabled, the first frame emitted after a sentence of
\* more than 15 words ending with a period (received as transcript or as
\* llm_token text) carries one breathing burst of type normal, and every
\* other emitted frame carries none.
C35_BreathAfterSentence ==
  [][(PlaybackTick /\ egress' # egress) =>
       textObs'.breath =
         IF /\ enableBreathing
            /\ textObs.breaths = 0
            /\ (LongSentence(lastLLMText) \/ LongSentence(textObs.lastTranscript))
         THEN "normal" ELSE "none"]_vars

\* C37: an error or close event of a socket that the client has replaced by
\* another one does not change the client's connected/connecting state and
\* does not stop the pipeline.
C37_StaleEventIgnored ==
  [][\A s \in SocketIds :
       (/\ ws # 0 /\ s # ws
        /\ \/ SocketError(s)
           \/ \E code \in {NORMAL_CLOSURE, ABNORMAL_CLOSURE} : SocketClose(s, code))
         => /\ isConnected' = isConnected
            /\ isConnecting' = isConnecting
            /\ isActive' = isActive]_vars

\* C38: at most one playback timer is running at any time, and none is
\* running after a stop().
C38_OnePlaybackTimer ==
  /\ [](intervals <= 1)
  /\ [][PipeStop => intervals' = 0]_vars

\* C40: the text an llm_done event carries is the concatenation of the
\* llm_token texts received since the later of the previous llm_done and the
\* last start() of the pipeline.
C40_DoneCarriesTokens ==
  [][(\E s \in SocketIds : PipeText(s, "llm_done", NoText))
       => textObs'.done = textObs.expected]_vars

====
